---- MODULE Spec2Model ----
(***************************************************************************)
(* Model of the two github-archive file systems of                         *)
(* chrome/common/extensions/docs/server2:                                  *)
(*   new_github_file_system.GithubFileSystem  ("new design")               *)
(*   github_file_system.GithubFileSystem      ("old design")               *)
(* of api_data_source._FormatValue and api_data_source._InlineDocs, and of *)
(* chrome/test/pyautolib/chromeos/suid_actions.SuidAction.CleanFlimflamDir.*)
(* Strings are sequences of one-character strings, so that the slicing,    *)
(* prefix and split operations of the code are computed, not assumed.      *)
(***************************************************************************)
EXTENDS Integers, Sequences, FiniteSets, TLC

VARIABLES design, live, repo_zip, installed_by, blobstore, stat_cache, handles,
          version, zip_file, old_blobstore, object_store, ret,
          fmt, api, suid

vars == <<design, live, repo_zip, installed_by, blobstore, stat_cache, handles,
          version, zip_file, old_blobstore, object_store, ret,
          fmt, api, suid>>

\* The calls of the three functions outside the file systems: the call of
\* _FormatValue, the schema _InlineDocs works on, the run of CleanFlimflamDir.
utilVars == <<fmt, api, suid>>

newVars == <<repo_zip, installed_by, blobstore, stat_cache, handles>>

oldVars == <<version, zip_file, old_blobstore, object_store>>

(* ------------------------------ bounds --------------------------------- *)

\* Upstream versions are 1..MaxVersion (the number of pushes seen so far).
MaxVersion == 3

\* Refresh handles one new-design instance hands out.
MaxHandles == 2

\* Longest batch of paths given to one Read.
MaxPaths == 1

\* Longest batch of paths given to one Read of an instance at rest.
MaxBatch == 2

(* --------------------------- python values ----------------------------- *)

\* Python's None where a version is expected.
NoneV == -1

\* The old design's sentinel version for a probe without a tree sha.
BadVersion == 0

\* Seconds the old design trusts the sentinel version.
NegativeTtl == 60

\* s[n:]
Drop(s, n) == SubSeq(s, n + 1, Len(s))

\* s[:-1]
DropLast(s) == SubSeq(s, 1, Len(s) - 1)

\* s[n:-1]
Mid(s, n) == SubSeq(s, n + 1, Len(s) - 1)

\* s.startswith(p)
StartsWith(s, p) == Len(p) <= Len(s) /\ SubSeq(s, 1, Len(p)) = p

\* s.endswith('/')
EndsWithSlash(s) == Len(s) > 0 /\ s[Len(s)] = "/"

\* '/' in s
HasSlash(s) == \E i \in 1..Len(s) : s[i] = "/"

\* s.count('/')
CountSlash(s) == Cardinality({i \in 1..Len(s) : s[i] = "/"})

\* Index of the first '/' of s, or Len(s) + 1 when s has none.
FirstSlash(s) == IF HasSlash(s) THEN CHOOSE i \in 1..Len(s) : s[i] = "/" /\ \A j \in 1..(i - 1) : s[j] # "/" ELSE Len(s) + 1

\* s.split('/')[0]
SplitHead(s) == SubSeq(s, 1, FirstSlash(s) - 1)

\* s.split('/', 1)[1]; only taken of a string that has a '/'.
SplitTail(s) == SubSeq(s, FirstSlash(s) + 1, Len(s))

\* x in list
InSeq(x, s) == \E i \in 1..Len(s) : s[i] = x

(* ------------------------- upstream and archives ----------------------- *)

\* Name list of the archive the upstream serves at version v: a checkout with
\* directory entries (one of them an empty directory), one without them, and
\* an empty archive.
Fixture(v) == CASE v % 3 = 1 -> << <<"r", "/">>, <<"r", "/", "a">>, <<"r", "/", "d", "/">>, <<"r", "/", "d", "/", "b">>, <<"r", "/", "e", "/">> >>
                [] v % 3 = 2 -> << <<"q", "/", "a">>, <<"q", "/", "d", "/", "b">> >>
                [] OTHER -> << >>

\* Payloads: nothing stored, bytes that are no archive, the archive of a version.
NoBlob == [kind |-> "none", arch |-> 0]

Corrupt == [kind |-> "corrupt", arch |-> 0]

ZipBytes(v) == [kind |-> "zip", arch |-> v]

\* A fetch that fails in transport.
FetchFailed == [kind |-> "error", arch |-> 0]

\* What an archive download started when the upstream was at version since can
\* turn out to be once it is awaited: the request is served at some moment
\* between the two.
FetchOutcomes(since) == {FetchFailed, Corrupt} \cup {ZipBytes(a) : a \in since..live}

\* What a probe of commits/HEAD can turn out to be: a tree sha, a JSON answer
\* without one, a transport failure.
ProbeOutcomes == {"sha", "nosha", "raise"}

\* ZipFile(StringIO(blob)): the parsed archive, or NoZip for BadZipfile / None.
NoZip == [kind |-> "none", arch |-> 0]

ZipFile(blob) == IF blob.kind = "zip" THEN [kind |-> "zip", arch |-> blob.arch] ELSE NoZip

\* zipfile.namelist()
Namelist(zip) == Fixture(zip.arch)

\* The content of entry name of zip.
Bytes(zip, name) == [kind |-> "bytes", arch |-> zip.arch, name |-> name, names |-> << >>]

\* The old design's '' and [].
EmptyStr == [kind |-> "bytes", arch |-> 0, name |-> << >>, names |-> << >>]

EmptyList == [kind |-> "list", arch |-> 0, name |-> << >>, names |-> << >>]

Listing(zip, names) == [kind |-> "list", arch |-> zip.arch, name |-> << >>, names |-> names]

Raised(err) == [kind |-> err, arch |-> 0, name |-> << >>, names |-> << >>]

\* Paths callers ask for.
Paths == { <<"/">>, <<"/", "a">>, <<"/", "d", "/">>, <<"/", "d", "/", "b">>, <<"/", "x">> }

\* Batches of at most MaxPaths paths.
PathBatches == UNION {[1..n -> Paths] : n \in 0..MaxPaths}

\* Paths callers ask an instance at rest for: those, the empty directory and a
\* directory no archive has.
AllPaths == Paths \cup { <<"/", "e", "/">>, <<"/", "x", "/">> }

\* Batches of at most MaxBatch of them.
Batches == UNION {[1..n -> AllPaths] : n \in 0..MaxBatch}

\* What the last operation did and returned.
NoStat == [version |-> NoneV, has_children |-> FALSE, child_versions |-> {}]

NoRet == [fs |-> "-", op |-> "init", out |-> "ok", paths |-> << >>, value |-> << >>, stat |-> NoStat, probes |-> 0, fetches |-> 0, persists |-> 0, handle |-> 0, fetch |-> NoBlob, prev |-> NoZip, prev_version |-> NoneV, prev_blob |-> NoBlob, prev_cached |-> NoneV, live |-> 0]

\* No call is under way: the last result was taken by its caller.
Idle == ret = NoRet

\* The first error among the per-path results, or "ok".
FirstError(results) == IF \E i \in 1..Len(results) : results[i].kind \notin {"bytes", "list"} THEN results[CHOOSE i \in 1..Len(results) : results[i].kind \notin {"bytes", "list"} /\ \A j \in 1..(i - 1) : results[j].kind \in {"bytes", "list"}].kind ELSE "ok"

(* ------------------- new_github_file_system.GithubFileSystem ----------- *)

\* The keys of the stat cache the code uses: self._repo_key and 'stat'.
EmptyStatCache == [repo |-> NoneV, stat |-> NoneV]

\* _GetNamelist
GetNamelist == IF repo_zip.kind = "none" THEN << >> ELSE Namelist(repo_zip)

\* _GetVersion reading the key Refresh compares with instead of the repository key.
GetVersion_stat_key == stat_cache.stat

\* _GetVersion
GetVersion == stat_cache.repo

\* The cached version Refresh compares the live version with.
RefreshCachedVersion == stat_cache.stat

\* persist_fetch dropping the snapshot when the download is no archive, as the
\* old design's Future(value=None) does.
persist_fetch_drops_snapshot(fetch, probed) == IF fetch.kind = "error" THEN [out |-> "TypeError", zip |-> repo_zip, blob |-> blobstore, cache |-> stat_cache, persists |-> 0]
                                               ELSE IF ZipFile(fetch).kind = "none" THEN [out |-> "ok", zip |-> NoZip, blob |-> blobstore, cache |-> stat_cache, persists |-> 0]
                                               ELSE [out |-> "ok", zip |-> ZipFile(fetch), blob |-> fetch, cache |-> [stat_cache EXCEPT !.repo = probed], persists |-> 1]

\* persist_fetch caching the version that is live when the handle is resolved
\* instead of the one its Refresh probed.
persist_fetch_caches_live(fetch, probed) == IF fetch.kind = "error" THEN [out |-> "TypeError", zip |-> repo_zip, blob |-> blobstore, cache |-> stat_cache, persists |-> 0]
                                            ELSE IF ZipFile(fetch).kind = "none" THEN [out |-> "ok", zip |-> repo_zip, blob |-> blobstore, cache |-> stat_cache, persists |-> 0]
                                            ELSE [out |-> "ok", zip |-> ZipFile(fetch), blob |-> fetch, cache |-> [stat_cache EXCEPT !.repo = live], persists |-> 1]

\* persist_fetch, given what fetch.Get() turned out to be and the version the
\* enclosing Refresh probed: the outcome and the three pieces of state after it.
persist_fetch(fetch, probed) == IF fetch.kind = "error" THEN [out |-> "TypeError", zip |-> repo_zip, blob |-> blobstore, cache |-> stat_cache, persists |-> 0]
                                ELSE IF ZipFile(fetch).kind = "none" THEN [out |-> "ok", zip |-> repo_zip, blob |-> blobstore, cache |-> stat_cache, persists |-> 0]
                                ELSE [out |-> "ok", zip |-> ZipFile(fetch), blob |-> fetch, cache |-> [stat_cache EXCEPT !.repo = probed], persists |-> 1]

\* A Future with a delegate that was not evaluated yet; since is the upstream
\* version when its FetchAsync was issued.
PendingHandle(probed) == [version |-> probed, since |-> live, st |-> "pending", arch |-> 0]

\* Future(value=None)
ValueHandle(probed) == [version |-> probed, since |-> live, st |-> "done", arch |-> 0]

\* What every result of the new design records of the state it was called in.
NewRet(op) == [NoRet EXCEPT !.fs = "new", !.op = op, !.prev = repo_zip, !.prev_version = GetVersion, !.prev_blob = blobstore, !.prev_cached = RefreshCachedVersion, !.live = live]

\* Refresh recording the version it probed in the stat cache right away.
Refresh_caches_at_once(probe) == /\ design = "new"
                                 /\ Idle
                                 /\ Len(handles) < MaxHandles
                                 /\ IF probe # "sha"
                                    THEN /\ ret' = [NewRet("Refresh") EXCEPT !.out = IF probe = "raise" THEN "FetchError" ELSE "KeyError", !.probes = 1]
                                         /\ UNCHANGED <<handles, stat_cache>>
                                    ELSE IF live # RefreshCachedVersion
                                    THEN /\ handles' = Append(handles, PendingHandle(live))
                                         /\ stat_cache' = [stat_cache EXCEPT !.repo = live]
                                         /\ ret' = [NewRet("Refresh") EXCEPT !.probes = 1, !.fetches = 1, !.handle = Len(handles) + 1]
                                    ELSE /\ handles' = Append(handles, ValueHandle(live))
                                         /\ ret' = [NewRet("Refresh") EXCEPT !.probes = 1, !.handle = Len(handles) + 1]
                                         /\ UNCHANGED stat_cache
                                 /\ UNCHANGED <<utilVars, design, live, repo_zip, installed_by, blobstore, oldVars>>

\* Refresh: probe the live version, compare, start the download.
Refresh(probe) == /\ design = "new"
                  /\ Idle
                  /\ Len(handles) < MaxHandles
                  /\ IF probe # "sha"
                     THEN /\ ret' = [NewRet("Refresh") EXCEPT !.out = IF probe = "raise" THEN "FetchError" ELSE "KeyError", !.probes = 1]
                          /\ UNCHANGED handles
                     ELSE IF live # RefreshCachedVersion
                     THEN /\ handles' = Append(handles, PendingHandle(live))
                          /\ ret' = [NewRet("Refresh") EXCEPT !.probes = 1, !.fetches = 1, !.handle = Len(handles) + 1]
                     ELSE /\ handles' = Append(handles, ValueHandle(live))
                          /\ ret' = [NewRet("Refresh") EXCEPT !.probes = 1, !.handle = Len(handles) + 1]
                  /\ UNCHANGED <<utilVars, design, live, repo_zip, installed_by, blobstore, stat_cache, oldVars>>

\* Future.Get running the delegate on every call, not only on the first.
Get_runs_delegate_again(h, fetch) == /\ design = "new"
                                     /\ Idle
                                     /\ h \in 1..Len(handles)
                                     /\ fetch \in FetchOutcomes(handles[h].since)
                                     /\ LET r == persist_fetch(fetch, handles[h].version)
                                        IN /\ repo_zip' = r.zip
                                           /\ blobstore' = r.blob
                                           /\ stat_cache' = r.cache
                                           /\ installed_by' = IF r.persists = 1 THEN h ELSE installed_by
                                           /\ handles' = [handles EXCEPT ![h].st = IF r.out = "ok" THEN "done" ELSE "raised", ![h].arch = IF r.persists = 1 THEN fetch.arch ELSE 0]
                                           /\ ret' = [NewRet("Get") EXCEPT !.out = r.out, !.handle = h, !.persists = r.persists, !.fetch = fetch]
                                     /\ UNCHANGED <<utilVars, design, live, oldVars>>

\* Future.Get on the handle h Refresh returned: the first call runs
\* persist_fetch, later calls give the memoized outcome.
Get(h, fetch) == /\ design = "new"
                 /\ Idle
                 /\ h \in 1..Len(handles)
                 /\ IF handles[h].st = "pending"
                    THEN /\ fetch \in FetchOutcomes(handles[h].since)
                         /\ LET r == persist_fetch(fetch, handles[h].version)
                            IN /\ repo_zip' = r.zip
                               /\ blobstore' = r.blob
                               /\ stat_cache' = r.cache
                               /\ installed_by' = IF r.persists = 1 THEN h ELSE installed_by
                               /\ handles' = [handles EXCEPT ![h].st = IF r.out = "ok" THEN "done" ELSE "raised", ![h].arch = IF r.persists = 1 THEN fetch.arch ELSE 0]
                               /\ ret' = [NewRet("Get") EXCEPT !.out = r.out, !.handle = h, !.persists = r.persists, !.fetch = fetch]
                    ELSE /\ fetch = FetchFailed
                         /\ ret' = [NewRet("Get") EXCEPT !.out = IF handles[h].st = "done" THEN "ok" ELSE "TypeError", !.handle = h]
                         /\ UNCHANGED <<repo_zip, installed_by, blobstore, stat_cache, handles>>
                 /\ UNCHANGED <<utilVars, design, live, oldVars>>

\* The entry of one path in the mapping Read builds (the body of its loop).
ReadPath(names, path) == LET prefix == SplitHead(names[1])
                             full_path == prefix \o path
                             Direct(f) == StartsWith(f, full_path) /\ ~HasSlash(Mid(f, Len(full_path))) /\ f # full_path
                             found == SelectSeq(names, Direct)
                         IN IF EndsWithSlash(path)
                            THEN Listing(repo_zip, [i \in 1..Len(found) |-> Drop(found[i], Len(full_path))])
                            ELSE IF InSeq(full_path, names) THEN Bytes(repo_zip, full_path) ELSE Raised("FileNotFoundError")

\* Read(paths)
Read(paths) == /\ design = "new"
               /\ Idle
               /\ LET names == GetNamelist
                      results == [i \in 1..Len(paths) |-> ReadPath(names, paths[i])]
                  IN ret' = IF names = << >>
                            THEN [NewRet("Read") EXCEPT !.out = "FileNotFoundError", !.paths = paths]
                            ELSE [NewRet("Read") EXCEPT !.out = FirstError(results), !.paths = paths, !.value = IF FirstError(results) = "ok" THEN results ELSE << >>]
               /\ UNCHANGED <<utilVars, design, live, newVars, oldVars>>

\* The names Stat looks paths up in: the zip file's name trimmed off.
Trimmed(names) == [i \in 1..Len(names) |-> <<"/">> \o SplitTail(names[i])]

\* The child_paths Stat collects for path.
ChildPaths(trimmed, path, v) == IF EndsWithSlash(path)
                                THEN {[name |-> Drop(trimmed[i], Len(path)), version |-> v] : i \in {j \in 1..Len(trimmed) : StartsWith(trimmed[j], path) /\ ~HasSlash(Drop(trimmed[j], Len(path))) /\ trimmed[j] # path}}
                                ELSE {}

\* StatInfo(version, child_paths or None)
StatInfo(v, child_paths) == [version |-> v, has_children |-> child_paths # {}, child_versions |-> child_paths]

\* Stat storing the version it answers under the key Refresh compares with.
Stat_caches_version(path) == /\ design = "new"
                             /\ Idle
                             /\ LET trimmed == Trimmed(GetNamelist)
                                IN ret' = IF ~InSeq(path, trimmed)
                                          THEN [NewRet("Stat") EXCEPT !.out = "FileNotFoundError", !.paths = <<path>>]
                                          ELSE [NewRet("Stat") EXCEPT !.paths = <<path>>, !.stat = StatInfo(GetVersion, ChildPaths(trimmed, path, GetVersion))]
                             /\ stat_cache' = [stat_cache EXCEPT !.stat = GetVersion]
                             /\ UNCHANGED <<utilVars, design, live, repo_zip, installed_by, blobstore, handles, oldVars>>

\* Stat(path)
Stat(path) == /\ design = "new"
              /\ Idle
              /\ LET trimmed == Trimmed(GetNamelist)
                 IN ret' = IF ~InSeq(path, trimmed)
                           THEN [NewRet("Stat") EXCEPT !.out = "FileNotFoundError", !.paths = <<path>>]
                           ELSE [NewRet("Stat") EXCEPT !.paths = <<path>>, !.stat = StatInfo(GetVersion, ChildPaths(trimmed, path, GetVersion))]
              /\ UNCHANGED <<utilVars, design, live, newVars, oldVars>>

\* The state after GithubFileSystem.__init__.
InitNew == /\ repo_zip = NoZip
           /\ installed_by = 0
           /\ blobstore = NoBlob
           /\ stat_cache = EmptyStatCache
           /\ handles = << >>

\* A push to the upstream repository: its version changes.
UpstreamPush == /\ Idle
                /\ live < MaxVersion
                /\ live' = live + 1
                /\ UNCHANGED <<utilVars, design, ret, newVars, oldVars>>

\* The caller takes the result of its call; the instance serves one call at a
\* time, so the next call starts after that.
Return == /\ ~Idle
          /\ ret' = NoRet
          /\ UNCHANGED <<utilVars, design, live, newVars, oldVars>>

(* --------------------- github_file_system.GithubFileSystem ------------- *)

\* ZIP_KEY = 'zipball', as one token.
ZIP_KEY == <<"zipball">>

\* The keys Stat is called with: ZIP_KEY by Read and __init__, a path by
\* callers (one that archives have, one that none has).
StatKeys == {ZIP_KEY, <<"/", "a">>, <<"/", "x">>}

\* The blobstore keys _MakeKey(version) of the versions the model has.
BlobKeys == BadVersion..MaxVersion

\* An absent object store entry, and an entry as Set stores it.
NoEntry == [version |-> NoneV, time |-> NoneV]

Entry(v, time) == [version |-> v, time |-> time]

EmptyStore == [k \in StatKeys |-> NoEntry]

EmptyBlobs == [k \in BlobKeys |-> NoBlob]

\* Future(value=zip) and Future(delegate=_AsyncFetchFutureZip(...)).
ValueFuture(zip) == [st |-> "value", zip |-> zip, key_to_set |-> NoneV, key_to_delete |-> NoneV, since |-> 0]

DelegateFuture(key_to_set, key_to_delete) == [st |-> "delegate", zip |-> NoZip, key_to_set |-> key_to_set, key_to_delete |-> key_to_delete, since |-> live]

\* Stat probing the upstream whatever the object store holds.
StatResult_always_probes(store, path, probe) == IF probe = "raise" THEN [out |-> "FetchError", version |-> NoneV, store |-> store, probes |-> 1]
                                                ELSE IF probe = "sha" THEN [out |-> "ok", version |-> live, store |-> [store EXCEPT ![path] = Entry(live, NoneV)], probes |-> 1]
                                                ELSE [out |-> "ok", version |-> BadVersion, store |-> [store EXCEPT ![path] = Entry(BadVersion, NegativeTtl)], probes |-> 1]

\* Stat taking a cached sentinel version for no entry and probing again.
StatResult_ignores_sentinel(store, path, probe) == IF store[path].version \notin {NoneV, BadVersion} THEN [out |-> "ok", version |-> store[path].version, store |-> store, probes |-> 0]
                                                   ELSE IF probe = "raise" THEN [out |-> "FetchError", version |-> NoneV, store |-> store, probes |-> 1]
                                                   ELSE IF probe = "sha" THEN [out |-> "ok", version |-> live, store |-> [store EXCEPT ![path] = Entry(live, NoneV)], probes |-> 1]
                                                   ELSE [out |-> "ok", version |-> BadVersion, store |-> [store EXCEPT ![path] = Entry(BadVersion, NegativeTtl)], probes |-> 1]

\* Stat storing the sentinel version the way it stores a probed one, without a time.
StatResult_sentinel_without_time(store, path, probe) == IF store[path].version # NoneV THEN [out |-> "ok", version |-> store[path].version, store |-> store, probes |-> 0]
                                                        ELSE IF probe = "raise" THEN [out |-> "FetchError", version |-> NoneV, store |-> store, probes |-> 1]
                                                        ELSE IF probe = "sha" THEN [out |-> "ok", version |-> live, store |-> [store EXCEPT ![path] = Entry(live, NoneV)], probes |-> 1]
                                                        ELSE [out |-> "ok", version |-> BadVersion, store |-> [store EXCEPT ![path] = Entry(BadVersion, NoneV)], probes |-> 1]

\* Stat(path) on the object store: the version returned, the store afterwards
\* and whether the upstream was probed.
StatResult(store, path, probe) == IF store[path].version # NoneV THEN [out |-> "ok", version |-> store[path].version, store |-> store, probes |-> 0]
                                  ELSE IF probe = "raise" THEN [out |-> "FetchError", version |-> NoneV, store |-> store, probes |-> 1]
                                  ELSE IF probe = "sha" THEN [out |-> "ok", version |-> live, store |-> [store EXCEPT ![path] = Entry(live, NoneV)], probes |-> 1]
                                  ELSE [out |-> "ok", version |-> BadVersion, store |-> [store EXCEPT ![path] = Entry(BadVersion, NegativeTtl)], probes |-> 1]

\* _GetZip(v), with blobs the blobstore and cur self._version before the call.
GetZip(blobs, cur, v) == IF blobs[v].kind # "none"
                         THEN IF ZipFile(blobs[v]).kind = "zip"
                              THEN [zip_file |-> ValueFuture(ZipFile(blobs[v])), blobs |-> blobs, version |-> v, fetches |-> 0]
                              ELSE [zip_file |-> ValueFuture(NoZip), blobs |-> [blobs EXCEPT ![v] = NoBlob], version |-> v, fetches |-> 0]
                         ELSE [zip_file |-> DelegateFuture(v, cur), blobs |-> blobs, version |-> v, fetches |-> 1]

\* _AsyncFetchFutureZip.Get storing the download under the key it was to delete.
AsyncFetchGet_wrong_key(d, blobs, fetch) == IF fetch.kind = "error" THEN [zip |-> NoZip, blobs |-> blobs, persists |-> 0]
                                            ELSE IF d.key_to_delete # NoneV THEN [zip |-> ZipFile(fetch), blobs |-> [blobs EXCEPT ![d.key_to_delete] = fetch], persists |-> 1]
                                            ELSE [zip |-> ZipFile(fetch), blobs |-> [blobs EXCEPT ![d.key_to_set] = fetch], persists |-> 1]

\* _AsyncFetchFutureZip.Get of delegate d, the download having turned out fetch.
AsyncFetchGet(d, blobs, fetch) == IF fetch.kind = "error" THEN [zip |-> NoZip, blobs |-> blobs, persists |-> 0]
                                  ELSE LET set == [blobs EXCEPT ![d.key_to_set] = fetch]
                                       IN [zip |-> ZipFile(fetch), blobs |-> IF d.key_to_delete # NoneV THEN [set EXCEPT ![d.key_to_delete] = NoBlob] ELSE set, persists |-> 1]

\* self._zip_file.Get(): the future afterwards, the blobstore afterwards.
ZipFileGet(future, blobs, fetch) == IF future.st = "value" THEN [zip_file |-> future, blobs |-> blobs, persists |-> 0]
                                    ELSE LET r == AsyncFetchGet(future, blobs, fetch)
                                         IN [zip_file |-> ValueFuture(r.zip), blobs |-> r.blobs, persists |-> r.persists]

\* _ReadFile(path) on the resolved zip.
ReadFile(zip, path) == IF zip.kind = "none" THEN EmptyStr
                       ELSE IF Namelist(zip) = << >> THEN Raised("IndexError")
                       ELSE LET prefix == DropLast(Namelist(zip)[1])
                            IN IF InSeq(prefix \o path, Namelist(zip)) THEN Bytes(zip, prefix \o path) ELSE Raised("KeyError")

\* _ListDir(path) on the resolved zip.
ListDir(zip, path) == IF zip.kind = "none" THEN EmptyList
                      ELSE LET names == Namelist(zip)
                               filenames == [i \in 1..Len(names) |-> Drop(names[i], Len(names[1]) - 1)]
                               Under(f) == f # path /\ StartsWith(f, path)
                               under == SelectSeq(filenames, Under)
                               stripped == [i \in 1..Len(under) |-> Drop(under[i], Len(path))]
                               Direct(f) == CountSlash(DropLast(f)) = 0
                           IN Listing(zip, SelectSeq(stripped, Direct))

\* The entry of one path in the result of Read.
OldReadPath(zip, path) == IF EndsWithSlash(path) THEN ListDir(zip, path) ELSE ReadFile(zip, path)

\* The snapshot of a future that holds one, else NoZip.
Installed(future) == IF future.st = "value" THEN future.zip ELSE NoZip

\* What every result of the old design records of the state it was called in.
OldRet(op) == [NoRet EXCEPT !.fs = "old", !.op = op, !.prev = Installed(zip_file), !.prev_version = version, !.prev_cached = object_store[ZIP_KEY].version, !.live = live]

\* Read(paths)
OldRead(paths, probe, fetch) == LET s == StatResult(object_store, ZIP_KEY, probe)
                                    g == IF s.version # version THEN GetZip(old_blobstore, version, s.version) ELSE [zip_file |-> zip_file, blobs |-> old_blobstore, version |-> version, fetches |-> 0]
                                    r == IF paths = << >> THEN [zip_file |-> g.zip_file, blobs |-> g.blobs, persists |-> 0] ELSE ZipFileGet(g.zip_file, g.blobs, fetch)
                                    results == [i \in 1..Len(paths) |-> OldReadPath(r.zip_file.zip, paths[i])]
                                    base == [OldRet("Read") EXCEPT !.paths = paths, !.probes = s.probes]
                                IN IF design # "old" \/ ~Idle \/ probe \notin (IF object_store[ZIP_KEY].version # NoneV THEN {"sha"} ELSE ProbeOutcomes)
                                   THEN FALSE
                                   ELSE IF s.out # "ok"
                                   THEN /\ fetch = FetchFailed
                                        /\ ret' = [base EXCEPT !.out = s.out]
                                        /\ UNCHANGED <<utilVars, design, live, newVars, oldVars>>
                                   ELSE /\ fetch \in (IF paths # << >> /\ g.zip_file.st = "delegate" THEN FetchOutcomes(g.zip_file.since) ELSE {FetchFailed})
                                        /\ object_store' = s.store
                                        /\ version' = g.version
                                        /\ zip_file' = r.zip_file
                                        /\ old_blobstore' = r.blobs
                                        /\ ret' = [base EXCEPT !.out = FirstError(results), !.value = IF FirstError(results) = "ok" THEN results ELSE << >>, !.stat = [NoStat EXCEPT !.version = s.version], !.fetches = g.fetches, !.persists = r.persists, !.fetch = IF paths # << >> /\ g.zip_file.st = "delegate" THEN fetch ELSE NoBlob]
                                        /\ UNCHANGED <<utilVars, design, live, newVars>>

\* Stat(path)
OldStat(path, probe) == LET s == StatResult(object_store, path, probe)
                        IN /\ design = "old"
                           /\ Idle
                           /\ probe \in (IF object_store[path].version # NoneV THEN {"sha"} ELSE ProbeOutcomes)
                           /\ object_store' = s.store
                           /\ ret' = [OldRet("Stat") EXCEPT !.out = s.out, !.paths = <<path>>, !.stat = [NoStat EXCEPT !.version = s.version], !.probes = s.probes, !.prev_cached = object_store[path].version]
                           /\ UNCHANGED <<utilVars, design, live, newVars, version, zip_file, old_blobstore>>

\* An object store entry runs out of its time, or is evicted, and is gone.
Expire(key) == /\ design = "old"
               /\ Idle
               /\ object_store[key] # NoEntry
               /\ object_store' = [object_store EXCEPT ![key] = NoEntry]
               /\ UNCHANGED <<utilVars, design, ret, live, newVars, version, zip_file, old_blobstore>>

\* The state after GithubFileSystem.__init__ on empty stores: Stat(ZIP_KEY),
\* then _GetZip of its version.
InitOld == \E probe \in {"sha", "nosha"} :
              LET s == StatResult(EmptyStore, ZIP_KEY, probe)
                  g == GetZip(EmptyBlobs, NoneV, s.version)
              IN /\ object_store = s.store
                 /\ version = g.version
                 /\ zip_file = g.zip_file
                 /\ old_blobstore = g.blobs

(* ---------------------------- specifications --------------------------- *)

\* The old design's variables while no instance of it exists.
NoOld == /\ object_store = EmptyStore
         /\ version = NoneV
         /\ zip_file = ValueFuture(NoZip)
         /\ old_blobstore = EmptyBlobs

\* None of the three functions outside the file systems is being called.
NoCall == [st |-> "none"]

NoUtil == /\ fmt = NoCall
          /\ api = NoCall
          /\ suid = NoCall

\* The process serves the repository through an instance of one of the two
\* classes, constructed at its start.
Init == /\ live = 1
        /\ ret = NoRet
        /\ NoUtil
        /\ design \in {"new", "old"}
        /\ InitNew
        /\ IF design = "old" THEN InitOld ELSE NoOld

Next == \/ UpstreamPush
        \/ Return
        \/ \E probe \in ProbeOutcomes : Refresh(probe)
        \/ \E h \in 1..MaxHandles : \E fetch \in FetchOutcomes(1) : Get(h, fetch)
        \/ \E paths \in PathBatches : Read(paths)
        \/ \E path \in Paths : Stat(path)
        \/ \E paths \in PathBatches : \E probe \in ProbeOutcomes : \E fetch \in FetchOutcomes(1) : OldRead(paths, probe, fetch)
        \/ \E probe \in ProbeOutcomes : OldStat(ZIP_KEY, probe)
        \/ \E key \in StatKeys : Expire(key)

Spec == Init /\ [][Next]_vars

\* An instance at rest: the new design before its first Refresh or after one
\* Refresh whose handle installed the archive of version v; the old design
\* after its download of version v was resolved, or failed.
InstalledNew(v) == /\ live = v
                   /\ repo_zip = ZipFile(ZipBytes(v))
                   /\ installed_by = 1
                   /\ blobstore = ZipBytes(v)
                   /\ stat_cache = [EmptyStatCache EXCEPT !.repo = v]
                   /\ handles = <<[version |-> v, since |-> v, st |-> "done", arch |-> v]>>

InstalledOld(v, blob) == /\ live = v
                         /\ object_store = [EmptyStore EXCEPT ![ZIP_KEY] = Entry(v, NoneV)]
                         /\ version = v
                         /\ zip_file = ValueFuture(ZipFile(blob))
                         /\ old_blobstore = IF ZipFile(blob).kind = "none" THEN EmptyBlobs ELSE [EmptyBlobs EXCEPT ![v] = blob]

InitPaths == /\ ret = NoRet
             /\ NoUtil
             /\ design \in {"new", "old"}
             /\ IF design = "new"
                THEN /\ NoOld
                     /\ \/ live \in 1..MaxVersion /\ InitNew
                        \/ \E v \in 1..MaxVersion : InstalledNew(v)
                ELSE /\ InitNew
                     /\ \E v \in 1..MaxVersion : \E blob \in {ZipBytes(v), FetchFailed} : InstalledOld(v, blob)

\* Reads and Stats of an instance at rest; nothing is pushed upstream.
NextPaths == \/ Return
             \/ \E paths \in Batches : Read(paths)
             \/ \E path \in AllPaths : Stat(path)
             \/ \E paths \in Batches : \E probe \in ProbeOutcomes : \E fetch \in FetchOutcomes(1) : OldRead(paths, probe, fetch)
             \/ \E path \in StatKeys : \E probe \in ProbeOutcomes : OldStat(path, probe)

SpecPaths == InitPaths /\ [][NextPaths]_vars

\* A caller that keeps reading while nothing is pushed upstream: every call
\* returns, Reads that name a path keep being issued, object store entries
\* run out of their time, and a Read that probes keeps getting the tree sha
\* and one that awaits a download the archive the upstream has.
NextRetry == \/ Return
             \/ \E probe \in ProbeOutcomes : Refresh(probe)
             \/ \E h \in 1..MaxHandles : \E fetch \in FetchOutcomes(1) : Get(h, fetch)
             \/ \E paths \in PathBatches : Read(paths)
             \/ \E path \in Paths : Stat(path)
             \/ \E paths \in PathBatches : \E probe \in ProbeOutcomes : \E fetch \in FetchOutcomes(1) : OldRead(paths, probe, fetch)
             \/ \E probe \in ProbeOutcomes : OldStat(ZIP_KEY, probe)
             \/ \E key \in StatKeys : Expire(key)

KeepsReading == /\ SF_vars(Return)
                /\ SF_vars(\E paths \in PathBatches \ {<< >>} : Read(paths))
                /\ SF_vars(\E paths \in PathBatches \ {<< >>} : \E probe \in ProbeOutcomes : \E fetch \in FetchOutcomes(1) : OldRead(paths, probe, fetch))
                /\ SF_vars(\E key \in StatKeys : Expire(key))
                /\ SF_vars(\E paths \in PathBatches \ {<< >>} : \E fetch \in FetchOutcomes(1) : OldRead(paths, "sha", fetch) /\ ret'.probes = 1)
                /\ SF_vars(\E paths \in PathBatches \ {<< >>} : OldRead(paths, "sha", ZipBytes(live)))

SpecRetry == Init /\ [][NextRetry]_vars /\ KeepsReading

(* -------------------------------- claims ------------------------------- *)

\* The last call was op on the design fs.
Did(fs, op) == ret.fs = fs /\ ret.op = op

\* The last call resolved a download that failed or was no archive.
DownloadWentWrong == ret.fetch.kind \in {"error", "corrupt"}

\* C1: new design: when resolving a Refresh handle hits a download failure or
\* bytes that are no archive, the snapshot, the blob and the cached versions
\* are what they were before, so reads return what they returned before.
C1_FailedRefreshKeepsState == (Did("new", "Get") /\ DownloadWentWrong) => (repo_zip = ret.prev /\ blobstore = ret.prev_blob /\ stat_cache = [repo |-> ret.prev_version, stat |-> ret.prev_cached])

\* C1 happens: a handle resolved to a failed or corrupt download while a
\* snapshot was installed.
C1_Witness == Did("new", "Get") /\ DownloadWentWrong /\ ret.prev.kind = "zip" /\ repo_zip.kind = "zip"

\* C2 as claimed: old design: when a Read detects a changed version and the
\* download fails or is no archive, every path the previous snapshot served
\* is still served from the previous snapshot.
C2_OldReadKeepsServing == (Did("old", "Read") /\ ret.fetches = 1 /\ DownloadWentWrong /\ ret.prev.kind = "zip") => \A i \in 1..Len(ret.paths) : OldReadPath(ret.prev, ret.paths[i]).kind \in {"bytes", "list"} => (ret.out = "ok" /\ ret.value[i] = OldReadPath(ret.prev, ret.paths[i]))

\* C3 as claimed: old design: a Read whose version probe fails (Stat yields
\* the sentinel 0) with a snapshot installed leaves the snapshot handle and
\* the recorded version alone and serves the snapshot's content.
C3_FailedProbeKeepsSnapshot == (Did("old", "Read") /\ ret.probes = 1 /\ ret.out \in {"ok", "KeyError", "IndexError"} /\ ret.stat.version = BadVersion /\ ret.prev.kind = "zip") => (zip_file = ValueFuture(ret.prev) /\ version = ret.prev_version)

\* C4 as claimed: in both designs no blob record holds bytes that are no archive.
C4_NoCorruptBlob == blobstore.kind # "corrupt" /\ \A k \in BlobKeys : old_blobstore[k].kind # "corrupt"

\* C5: new design: whenever a snapshot is installed, the version cached under
\* the repository key is the one probed by the Refresh whose handle installed
\* it and the blob is that snapshot's bytes; with no snapshot there is neither.
C5_SnapshotBlobVersionTogether == IF repo_zip.kind = "zip"
                                  THEN /\ installed_by \in 1..Len(handles)
                                       /\ handles[installed_by].arch = repo_zip.arch
                                       /\ GetVersion = handles[installed_by].version
                                       /\ blobstore = ZipBytes(repo_zip.arch)
                                  ELSE /\ installed_by = 0
                                       /\ GetVersion = NoneV
                                       /\ blobstore = NoBlob

\* C5 happens: a resolved handle replaced an installed snapshot by a download
\* that was served after a later push than the one its Refresh probed.
C5_Witness == Did("new", "Get") /\ ret.persists = 1 /\ ret.prev.kind = "zip" /\ repo_zip.arch # GetVersion

\* The part of C6 and C8 that is about the new design's Read and Stat: they
\* send no probe, start no fetch and write no blob.
NewReadIsPassive == (ret.fs = "new" /\ ret.op \in {"Read", "Stat"}) => (ret.probes = 0 /\ ret.fetches = 0 /\ ret.persists = 0 /\ repo_zip = ret.prev /\ blobstore = ret.prev_blob)

\* The old design's Read got from Stat a version other than the recorded one.
OldReadSawChange == Did("old", "Read") /\ ret.stat.version # NoneV /\ ret.stat.version # ret.prev_version

C7_NoFetchWhenUpToDate == (Did("new", "Refresh") /\ ret.out = "ok" /\ ret.prev.kind = "zip" /\ ret.prev_version = ret.live) => ret.fetches = 0

\* C8 as claimed: every Read sends one probe to the upstream.
C8_EveryReadProbes == ret.op = "Read" => ret.probes = 1

\* C8 as amended: old design: a Read probes the upstream, once, exactly when
\* the object store holds no version under 'zipball'; otherwise it takes the
\* stored version and sends no probe. New design: Read sends no probe.
C8_ReadProbesOnCacheMiss == /\ NewReadIsPassive
                            /\ Did("old", "Read") => /\ ret.probes = (IF ret.prev_cached = NoneV THEN 1 ELSE 0)
                                                     /\ (ret.prev_cached # NoneV) => (ret.out # "FetchError" /\ ret.stat.version = ret.prev_cached)

\* C8 happens: a Read answered from the object store while the upstream had
\* moved on to another version.
C8_Witness == Did("old", "Read") /\ ret.probes = 0 /\ ret.prev_cached \notin {NoneV, BadVersion} /\ ret.live # ret.prev_cached /\ ret.paths # << >> /\ ret.out = "ok"

\* C9 as claimed: new design: once the snapshot of a handle whose Refresh
\* probed a newer version was installed, no Stat or Read sees the snapshot of
\* a handle whose Refresh probed an older one.
C9_NeverOlderSnapshot == (ret.fs = "new" /\ ret.op \in {"Read", "Stat"} /\ ret.out = "ok" /\ ret.paths # << >>) => \A h \in 1..Len(handles) : handles[h].arch > 0 => (handles[h].version <= handles[installed_by].version /\ handles[h].version <= GetVersion)

Entries(zip) == {Namelist(zip)[i] : i \in 1..Len(Namelist(zip))}

\* The logical namespace of a snapshot: its entry names without their root
\* directory name.
Logical(zip) == {Drop(n, Len(SplitHead(n))) : n \in Entries(zip)}

\* p is a directory of the snapshot: an entry of the namespace is p or lies under it.
HasDirectory(zip, p) == EndsWithSlash(p) /\ \E t \in Logical(zip) : StartsWith(t, p)

\* The names directly in directory p: files, and subdirectories with their
\* trailing separator.
ImmediateChildren(zip, p) == {Drop(t, Len(p)) : t \in {u \in Logical(zip) : StartsWith(u, p) /\ u # p /\ ~HasSlash(DropLast(Drop(u, Len(p))))}}

\* The members of a sequence.
Members(seq) == {seq[i] : i \in 1..Len(seq)}

\* The last call was op, on either design.
DidOp(op) == ret.op = op /\ ret.fs \in {"new", "old"}

\* C11: new design: a Stat that succeeds carries child versions exactly when
\* the stated path ends with the separator, also for a directory without
\* children.
C11_ChildVersionsIffDirectory == (Did("new", "Stat") /\ ret.out = "ok") => (ret.stat.has_children <=> EndsWithSlash(ret.paths[1]))

\* C12: new design: Stat of a directory of the snapshot lists every immediate
\* child, files and subdirectories, nothing deeper and not the directory
\* itself, each with the version of the directory.
C12_StatListsImmediateChildren == (Did("new", "Stat") /\ ret.out = "ok" /\ EndsWithSlash(ret.paths[1])) => (/\ {c.name : c \in ret.stat.child_versions} = ImmediateChildren(ret.prev, ret.paths[1])
                                                                                                         /\ \A c \in ret.stat.child_versions : c.version = ret.stat.version)

\* C13: the listing Read returns for a directory of the snapshot is exactly
\* its immediate children: no name with a separator inside, not the directory
\* itself.
C13_ListingIsImmediateChildren == (DidOp("Read") /\ ret.out = "ok") => \A i \in 1..Len(ret.paths) : HasDirectory(ret.prev, ret.paths[i]) => (ret.value[i].kind = "list" /\ Members(ret.value[i].names) = ImmediateChildren(ret.prev, ret.paths[i]))

\* C14: Read of a file path p whose entry root + p is in the installed archive
\* returns the bytes of that entry, whatever the order of the name list.
C14_ReadRoundTrip == (DidOp("Read") /\ Len(ret.paths) = 1 /\ ~EndsWithSlash(ret.paths[1]) /\ ret.paths[1] \in Logical(ret.prev)) => (ret.out = "ok" /\ \E n \in Entries(ret.prev) : Drop(n, Len(SplitHead(n))) = ret.paths[1] /\ ret.value[1] = Bytes(ret.prev, n))

\* A file path of the batch that the snapshot does not have.
MissingFile(zip, paths) == \E i \in 1..Len(paths) : ~EndsWithSlash(paths[i]) /\ paths[i] \notin Logical(zip)

\* C15: a Read either fails with FileNotFoundError and returns nothing, which
\* it does whenever a requested file path is missing, or returns an entry for
\* every requested path.
C15_BatchAllOrNothing == DidOp("Read") => (/\ ret.out \in {"ok", "FileNotFoundError"}
                                           /\ MissingFile(ret.prev, ret.paths) => ret.out = "FileNotFoundError"
                                           /\ ret.out = "ok" => Len(ret.value) = Len(ret.paths)
                                           /\ ret.out # "ok" => ret.value = << >>)

\* C16: Stat fails with FileNotFoundError for every path that is not in the
\* logical namespace of the snapshot and succeeds for every path in it.
C16_StatNotFoundIffAbsent == (DidOp("Stat") /\ ret.paths[1] # ZIP_KEY) => IF ret.paths[1] \in Logical(ret.prev) THEN ret.out = "ok" ELSE ret.out = "FileNotFoundError"

\* C17: Read of a directory path the snapshot does not have fails with
\* FileNotFoundError; it never returns an empty listing for it.
C17_AbsentDirectoryNotFound == DidOp("Read") => \A i \in 1..Len(ret.paths) : (EndsWithSlash(ret.paths[i]) /\ ~HasDirectory(ret.prev, ret.paths[i])) => ret.out = "FileNotFoundError"

\* C18: without a snapshot, or with an installed archive of zero entries,
\* every Read and every Stat of a path fails with FileNotFoundError.
C18_NoSnapshotNotFound == ((DidOp("Read") \/ DidOp("Stat")) /\ ret.paths # << >> /\ ret.paths[1] # ZIP_KEY /\ Namelist(ret.prev) = << >>) => ret.out = "FileNotFoundError"


(* --------------------- claims on upstream failures --------------------- *)

\* C19: a transport failure of the version probe or of the archive download
\* never raises out of Refresh, out of resolving a Refresh handle, or out of
\* a Read or Stat made while a snapshot is installed.
C19_TransportFailureRecovered == (Did("new", "Refresh") \/ Did("new", "Get") \/ ((DidOp("Read") \/ DidOp("Stat")) /\ ret.prev.kind = "zip")) => ret.out \notin {"FetchError", "TypeError"}

\* The object store key the last old-design call looked its version up under.
StatKeyOfCall == IF ret.op = "Stat" THEN ret.paths[1] ELSE ZIP_KEY

\* The last call was an old-design Stat, or the Stat of a Read, that probed.
OldStatProbed == (Did("old", "Stat") \/ Did("old", "Read")) /\ ret.probes = 1

\* C20: old design: a probe without a tree sha makes Stat return version 0
\* and store 0 with a time of 60 seconds, a probed version is stored without
\* a time, and a probe that raises stores nothing: the object store never
\* holds the sentinel without a time.
C20_FailedProbeShortLived == /\ \A k \in StatKeys : object_store[k].version = BadVersion => object_store[k].time = NegativeTtl
                             /\ \A k \in StatKeys : object_store[k].version > BadVersion => object_store[k].time = NoneV
                             /\ (OldStatProbed /\ ret.out # "FetchError") => object_store[StatKeyOfCall] = (IF ret.stat.version = BadVersion THEN Entry(BadVersion, NegativeTtl) ELSE Entry(ret.live, NoneV))
                             /\ (OldStatProbed /\ ret.out = "FetchError") => object_store[StatKeyOfCall] = NoEntry

\* C20 happens: a Stat probed, got no tree sha, returned 0 and stored it for
\* 60 seconds while an archive was installed.
C20_Witness == Did("old", "Stat") /\ ret.probes = 1 /\ ret.out = "ok" /\ ret.stat.version = BadVersion /\ object_store[ZIP_KEY] = Entry(BadVersion, NegativeTtl) /\ ret.prev.kind = "zip"


(* ------------------- claims on caching and refreshing ------------------ *)

\* C21: old design: a Stat that finds an entry under its key, a probed
\* version or the sentinel 0, returns that version, leaves the entry alone and
\* does not probe the upstream; a Stat probes only when the entry is absent.
C21_CachedStatDoesNotProbe == Did("old", "Stat") => IF ret.prev_cached # NoneV
                                                    THEN ret.probes = 0 /\ ret.out = "ok" /\ ret.stat.version = ret.prev_cached /\ object_store[ret.paths[1]].version = ret.prev_cached
                                                    ELSE ret.probes = 1

\* C21 happens: a Stat answered the sentinel 0 from its entry, without a
\* probe, while the upstream had a version to give.
C21_Witness == Did("old", "Stat") /\ ret.prev_cached = BadVersion /\ ret.probes = 0 /\ ret.stat.version = BadVersion /\ live > 1


\* The last call awaited a download that was no archive.
MalformedDownloaded == ret.op \in {"Read", "Get"} /\ ret.fetch.kind = "corrupt"

\* The instance serves from an archive.
SnapshotInstalled == IF design = "new" THEN repo_zip.kind = "zip" ELSE Installed(zip_file).kind = "zip"

\* C22: after a download that was no archive, a caller that keeps reading gets
\* the probe and the fetch retried, so that with an upstream that serves a
\* valid archive a snapshot is installed in the end, the upstream version
\* staying what it is.
C22_RetryUntilValid == MalformedDownloaded ~> SnapshotInstalled


\* A step that resolves again a Refresh handle already resolved gives the
\* outcome of the first time and leaves the handle, the snapshot, the blob
\* and the cached versions alone.
NewHandleResolvedOnce == \A h \in 1..Len(handles) : handles[h].st # "pending" => (/\ handles'[h] = handles[h]
                                                                                  /\ (ret'.op = "Get" /\ ret.op # "Get" /\ ret'.handle = h) => (/\ UNCHANGED <<repo_zip, installed_by, blobstore, stat_cache>>
                                                                                                                                              /\ ret'.persists = 0
                                                                                                                                              /\ ret'.fetches = 0
                                                                                                                                              /\ ret'.out = IF handles[h].st = "done" THEN "ok" ELSE "TypeError"))

\* A step that leaves the old design's recorded version alone, made when
\* _zip_file is resolved, keeps its value and writes no blob.
OldHandleResolvedOnce == (design = "old" /\ zip_file.st = "value" /\ version' = version) => UNCHANGED <<zip_file, old_blobstore>>

ScenarioArchive == Members(Fixture(ret.live)) = {<<"q", "/", "a">>, <<"q", "/", "d", "/", "b">>} /\ ret.prev \in {NoZip, ZipFile(ZipBytes(ret.live))}

\* C24: with that upstream archive at version v, Stat of the directory gives
\* the child versions {b: StatInfo(v)} and Read of the file gives its bytes,
\* on a fresh instance too, although the archive has no entry for the directory.
C24_FreshInstanceScenario == ((DidOp("Stat") \/ DidOp("Read")) /\ ScenarioArchive) => (/\ (ret.op = "Stat" /\ ret.paths = << <<"/", "d", "/">> >>) => (ret.out = "ok" /\ ret.stat.child_versions = {[name |-> <<"b">>, version |-> ret.live]})
                                                                                       /\ (ret.op = "Read" /\ ret.paths = << <<"/", "a">> >>) => (ret.out = "ok" /\ ret.value = << Bytes(ZipFile(ZipBytes(ret.live)), <<"q", "/", "a">>) >>))


(* --------------------------- claims on the blobs ----------------------- *)

\* No step puts other bytes under a new-design key that holds a payload.
NewBlobKept == blobstore.kind # "none" => blobstore' = blobstore

\* No step puts other bytes under an old-design key that holds a payload; it
\* may delete them.
OldBlobKept == \A k \in BlobKeys : old_blobstore[k].kind # "none" => old_blobstore'[k] \in {old_blobstore[k], NoBlob}

\* C25: a Blob Store key that holds a payload is never written again with
\* other bytes: the payload of a new version goes under a key of its own.
C25_BlobWrittenOnce == [][NewBlobKept /\ OldBlobKept]_vars


(* ------------------------ claims on what changes ----------------------- *)

\* The snapshot, the blob and the cached versions of the new design.
newState == <<repo_zip, installed_by, blobstore, stat_cache>>

\* C26: new design: a step of Refresh leaves the snapshot, the blob and the
\* cached versions as they are, and they change only in a step that resolves
\* a pending Refresh handle; so Stat and Read answer the same until then.
C26_RefreshChangesNothing == [][/\ (ret'.op = "Refresh" /\ ret.op # "Refresh") => UNCHANGED newState
                                /\ newState' # newState => (ret'.op = "Get" /\ ret.op # "Get" /\ handles[ret'.handle].st = "pending" /\ handles'[ret'.handle].st # "pending")]_vars

\* C26 happens: a Refresh found a version other than the installed one and
\* started a download, and the instance still serves the old snapshot.
C26_Witness == Did("new", "Refresh") /\ ret.out = "ok" /\ ret.fetches = 1 /\ handles[ret.handle].st = "pending" /\ repo_zip.kind = "zip" /\ handles[ret.handle].version # GetVersion /\ repo_zip = ret.prev


\* C27: new design: every StatInfo Stat returns, and every child entry in it,
\* has version 0.
C27_StatVersionsAlwaysZero == (Did("new", "Stat") /\ ret.out = "ok") => (ret.stat.version = 0 /\ \A c \in ret.stat.child_versions : c.version = 0)

\* A step deleted the blob of another version than the one now recorded.
DeletedOldBlob == \E k \in BlobKeys : k # version' /\ old_blobstore[k] # NoBlob /\ old_blobstore'[k] = NoBlob

\* Some blob of the store parses as an archive.
UsableBlob(blobs) == \E k \in BlobKeys : ZipFile(blobs[k]).kind = "zip"

\* C28: old design: a step that deletes the blob of the previous version
\* leaves a blob under the new version that parses as an archive, and a store
\* that had a usable blob has one afterwards.
C28_DeleteOnlyWhenSuperseded == [][/\ DeletedOldBlob => ZipFile(old_blobstore'[version']).kind = "zip"
                                   /\ UsableBlob(old_blobstore) => UsableBlob(old_blobstore')]_vars


\* C29: new design: for a directory of the snapshot the names of the child
\* versions Stat gives are the names of the listing Read gives, files and
\* subdirectories alike.
C29_StatAndReadAgree == (Did("new", "Stat") /\ ret.out = "ok" /\ EndsWithSlash(ret.paths[1])) => {c.name : c \in ret.stat.child_versions} = Members(ReadPath(Namelist(ret.prev), ret.paths[1]).names)

\* C30: new design: a step of Read or Stat, whether it succeeds or fails with
\* FileNotFoundError, leaves the snapshot, the blob, the cached versions and
\* the outstanding handles as they are and probes, fetches and stores nothing.
C30_ReadAndStatReadOnly == [][(ret'.fs = "new" /\ ret'.op \in {"Read", "Stat"} /\ ret.op \notin {"Read", "Stat"}) => (/\ UNCHANGED <<newState, handles>>
                                                                                                                    /\ ret'.out \in {"ok", "FileNotFoundError"}
                                                                                                                    /\ ret'.probes = 0 /\ ret'.fetches = 0 /\ ret'.persists = 0)]_vars

\* C30 happens: a Read or Stat failed while a snapshot was installed, the
\* upstream had moved on and a Refresh handle was outstanding.
C30_Witness == ret.fs = "new" /\ ret.op \in {"Read", "Stat"} /\ ret.out = "FileNotFoundError" /\ repo_zip.kind = "zip" /\ live # GetVersion /\ \E h \in 1..Len(handles) : handles[h].st = "pending"

(* ---------------------- api_data_source._FormatValue ------------------- *)

\* The largest magnitude of the values formatted, before scaling.
MaxValue == 1234

\* No file system is constructed while one of the three functions is called.
NoFileSystem == /\ design = "none"
                /\ live = 1
                /\ ret = NoRet
                /\ InitNew
                /\ NoOld

fsVars == <<design, live, ret, newVars, oldVars>>

Max(a, b) == IF a > b THEN a ELSE b

\* s[a:b] of Python for 0 <= a <= b <= len(s).
Slice(s, a, b) == SubSeq(s, a + 1, b)

\* seq[::-1].
Reversed(seq) == [k \in 1..Len(seq) |-> seq[Len(seq) + 1 - k]]

RECURSIVE Join(_, _)
\* sep.join(parts).
Join(sep, parts) == IF parts = << >> THEN << >>
                    ELSE IF Len(parts) = 1 THEN parts[1]
                    ELSE parts[1] \o sep \o Join(sep, Tail(parts))

Digits == <<"0", "1", "2", "3", "4", "5", "6", "7", "8", "9">>

RECURSIVE StrNat(_)
\* The decimal digits of a natural number.
StrNat(n) == IF n < 10 THEN <<Digits[n + 1]>> ELSE StrNat(n \div 10) \o <<Digits[(n % 10) + 1]>>

\* str(value) of an int.
Str(value) == IF value < 0 THEN <<"-">> \o StrNat(-value) ELSE StrNat(value)

\* range(len(s), 0, -3) as a list.
GroupEnds(s) == [k \in 1..((Len(s) + 2) \div 3) |-> Len(s) - 3 * (k - 1)]

\* _FormatValue: the slices of three characters of str(value), taken from
\* its end, put back in reading order and joined by commas.
FormatValue(value) == LET s == Str(value)
                          ends == GroupEnds(s)
                          groups == [k \in 1..Len(ends) |-> Slice(s, Max(0, ends[k] - 3), ends[k])]
                      IN Join(<<",">>, Reversed(groups))

\* The values a property of a schema may carry: small ones and thousands.
Values == {n * m : n \in (-MaxValue)..MaxValue, m \in {1, 1000}}

\* _GenerateProperty formats the value of a property that is an int.
GenerateProperty == /\ fmt.st = "value"
                    /\ fmt' = [st |-> "formatted", value |-> fmt.value, out |-> FormatValue(fmt.value)]
                    /\ UNCHANGED <<fsVars, api, suid>>

InitFormat == /\ NoFileSystem
              /\ api = NoCall
              /\ suid = NoCall
              /\ \E value \in Values : fmt = [st |-> "value", value |-> value]

NextFormat == GenerateProperty

SpecFormat == InitFormat /\ [][NextFormat]_vars

RECURSIVE SplitOn(_, _)
\* s.split(sep) for a one-character sep.
SplitOn(s, sep) == IF \A i \in 1..Len(s) : s[i] # sep THEN <<s>>
                   ELSE LET i == CHOOSE j \in 1..Len(s) : s[j] = sep /\ \A h \in 1..(j - 1) : s[h] # sep
                        IN <<SubSeq(s, 1, i - 1)>> \o SplitOn(SubSeq(s, i + 1, Len(s)), sep)

IsDigits(s) == \A i \in 1..Len(s) : InSeq(s[i], Digits)

\* The characters of s that are not commas.
WithoutCommas(s) == Join(<< >>, SplitOn(s, ","))

\* The first group without the sign of a negative value.
Unsigned(value, group) == IF value < 0 /\ group # << >> /\ group[1] = "-" THEN Tail(group) ELSE group

\* C31: removing the commas from _FormatValue(n) gives the decimal string of
\* n, every group after the first has exactly three digits, and the first
\* group has one to three digits after the sign of a negative n.
C31_CommaGroups == fmt.st = "formatted" => LET groups == SplitOn(fmt.out, ",")
                                               first == Unsigned(fmt.value, groups[1])
                                           IN /\ WithoutCommas(fmt.out) = Str(fmt.value)
                                              /\ \A k \in 2..Len(groups) : Len(groups[k]) = 3 /\ IsDigits(groups[k])
                                              /\ Len(first) \in 1..3 /\ IsDigits(first)
                                              /\ fmt.value < 0 => groups[1][1] = "-"

\* The same for the values that are not negative.
C31_NonNegativeGroups == (fmt.st = "formatted" /\ fmt.value >= 0) => LET groups == SplitOn(fmt.out, ",")
                                                                     IN /\ WithoutCommas(fmt.out) = Str(fmt.value)
                                                                        /\ \A k \in 2..Len(groups) : Len(groups[k]) = 3 /\ IsDigits(groups[k])
                                                                        /\ Len(groups[1]) \in 1..3 /\ IsDigits(groups[1])

\* The formatted value the claim fails on.
C31_SignAlone == fmt.st = "formatted" /\ fmt.value = -123 /\ fmt.out = <<"-", ",", "1", "2", "3">>

(* ---------------------- api_data_source._InlineDocs -------------------- *)

\* The number of types a schema declares.
MaxTypes == 2

\* The depth of calls at which the interpreter raises RuntimeError.
MaxDepth == 12

\* The objects of a schema: the schema, its list of types, its list of
\* functions with one parameter, and for each type its dict, the dict of its
\* properties and its property 'x'.  Dicts and lists are objects of a heap,
\* so that two dicts holding the same object see each other's changes.
Objects == {<<k, 0>> : k \in {"schema", "types", "functions", "parameter"}} \cup {<<k, t>> : k \in {"type", "properties", "x"}, t \in 1..MaxTypes}

\* A dict with its keys in the order iteritems gives them and its values in
\* elems; ref is the type its '$ref' names (0: no '$ref'), id its 'id'.
Dict(keys, elems, ref) == [list |-> FALSE, keys |-> keys, elems |-> elems, ref |-> ref, id |-> 0, inline_doc |-> FALSE, noinline_doc |-> FALSE, description |-> FALSE]

List(elems) == [list |-> TRUE, keys |-> << >>, elems |-> elems, ref |-> 0, id |-> 0, inline_doc |-> FALSE, noinline_doc |-> FALSE, description |-> FALSE]

\* The position of a key of a dict.
KeyIndex(node, key) == CHOOSE j \in 1..Len(node.keys) : node.keys[j] = key

\* The json of a schema: each type t is marked inline[t] and noinline[t]
\* and its property refers to type refs[t], the parameter to type param.
Schema(keys, inline, noinline, refs, param) == [o \in Objects |->
    IF o[1] = "schema" THEN Dict(keys, [j \in 1..Len(keys) |-> <<keys[j], 0>>], 0)
    ELSE IF o[1] = "types" THEN List([t \in 1..MaxTypes |-> <<"type", t>>])
    ELSE IF o[1] = "functions" THEN List(<<<<"parameter", 0>>>>)
    ELSE IF o[1] = "parameter" THEN Dict(<< >>, << >>, param)
    ELSE IF o[1] = "type" THEN [Dict(<<"properties">>, <<<<"properties", o[2]>>>>, 0) EXCEPT !.id = o[2], !.inline_doc = inline[o[2]], !.noinline_doc = noinline[o[2]], !.description = TRUE]
    ELSE IF o[1] = "properties" THEN Dict(<<"x">>, <<<<"x", o[2]>>>>, 0)
    ELSE Dict(<< >>, << >>, refs[o[2]])]

RECURSIVE Walk(_, _, _)
\* The objects the loop of _DetectInlineableTypes pops, from the stack on.
Walk(heap, stack, seen) == IF stack = {} THEN seen
                           ELSE LET node == CHOOSE o \in stack : TRUE
                                IN Walk(heap, (stack \ {node}) \cup ({heap[node].elems[j] : j \in 1..Len(heap[node].elems)} \ seen), seen \cup {node})

\* refcounts[t] of _DetectInlineableTypes.
Refcounts(heap, t) == Cardinality({o \in Walk(heap, {<<"schema", 0>>}, {}) : heap[o].ref = t})

HasTypes(heap) == InSeq("types", heap[<<"schema", 0>>].keys)

\* schema['types'].
TypesOf(heap) == heap[heap[<<"schema", 0>>].elems[KeyIndex(heap[<<"schema", 0>>], "types")]].elems

\* _DetectInlineableTypes: marks the types referred to exactly once.
DetectInlineableTypes(heap) == IF ~HasTypes(heap) \/ TypesOf(heap) = << >> THEN heap
                               ELSE [o \in Objects |-> IF InSeq(o, TypesOf(heap)) /\ ~heap[o].noinline_doc /\ Refcounts(heap, heap[o].id) = 1
                                                       THEN [heap[o] EXCEPT !.inline_doc = TRUE]
                                                       ELSE heap[o]]

\* The keys of a dict after node.update(doc).
UpdatedKeys(node, doc) == node.keys \o SelectSeq(doc.keys, LAMBDA k : ~InSeq(k, node.keys))

\* node.update(doc) followed by del node['$ref']: the values of doc are put
\* under their keys in node, as the objects they are.
Update(node, doc) == LET keys == UpdatedKeys(node, doc)
                     IN [node EXCEPT !.keys = keys,
                                     !.elems = [j \in 1..Len(keys) |-> IF InSeq(keys[j], doc.keys) THEN doc.elems[KeyIndex(doc, keys[j])] ELSE node.elems[KeyIndex(node, keys[j])]],
                                     !.noinline_doc = node.noinline_doc \/ doc.noinline_doc,
                                     !.ref = 0]

RECURSIVE apply_inline(_, _, _, _)
RECURSIVE apply_each(_, _, _, _)
\* apply_inline(node) at the given depth of calls on a heap; inline_docs
\* maps the id of a type to its dict (0: not in inline_docs).
apply_inline(heap, inline_docs, node, depth) ==
    IF depth > MaxDepth THEN [out |-> "RuntimeError", heap |-> heap]
    ELSE IF heap[node].list THEN apply_each(heap, inline_docs, heap[node].elems, depth + 1)
    ELSE LET ref == heap[node].ref
             updated == IF ref # 0 /\ inline_docs[ref] # <<"none", 0>>
                        THEN [heap EXCEPT ![node] = Update(heap[node], heap[inline_docs[ref]])]
                        ELSE heap
         IN apply_each(updated, inline_docs, updated[node].elems, depth + 1)

\* The loop over the elements of a list or the values of a dict.
apply_each(heap, inline_docs, elems, depth) ==
    IF elems = << >> THEN [out |-> "ok", heap |-> heap]
    ELSE LET done == apply_inline(heap, inline_docs, Head(elems), depth)
         IN IF done.out # "ok" THEN done ELSE apply_each(done.heap, inline_docs, Tail(elems), depth)

\* The types _InlineDocs gathers in inline_docs.
InlineTypes(heap) == {o \in Objects : HasTypes(heap) /\ InSeq(o, TypesOf(heap)) /\ heap[o].inline_doc}

\* _InlineDocs on the heap of a schema.
InlineDocs(heap) ==
    IF ~HasTypes(heap) THEN [out |-> "ok", heap |-> heap]
    ELSE LET types == heap[<<"schema", 0>>].elems[KeyIndex(heap[<<"schema", 0>>], "types")]
             inline_docs == [t \in 1..MaxTypes |-> IF \E o \in InlineTypes(heap) : heap[o].id = t
                                                   THEN CHOOSE o \in InlineTypes(heap) : heap[o].id = t
                                                   ELSE <<"none", 0>>]
             types_without_inline_doc == SelectSeq(heap[types].elems, LAMBDA o : ~heap[o].inline_doc)
             gathered == [o \in Objects |-> IF o \in InlineTypes(heap) THEN [heap[o] EXCEPT !.description = FALSE, !.id = 0, !.inline_doc = FALSE]
                                            ELSE IF o = types THEN List(types_without_inline_doc)
                                            ELSE heap[o]]
         IN apply_inline(gathered, inline_docs, <<"schema", 0>>, 1)

\* The schemas handed to _JSCModel: json or idl, with or without types.
Schemas == {Schema(keys, inline, noinline, refs, param) :
                keys \in {<<"types", "functions">>, <<"functions", "types">>, <<"functions">>},
                inline \in [1..MaxTypes -> BOOLEAN], noinline \in [1..MaxTypes -> BOOLEAN],
                refs \in [1..MaxTypes -> 0..MaxTypes], param \in 0..MaxTypes}

\* _JSCModel.__init__ copies the json it is given.
InitInline == /\ NoFileSystem
              /\ fmt = NoCall
              /\ suid = NoCall
              /\ \E heap \in Schemas : \E idl \in BOOLEAN : api = [st |-> "json", idl |-> idl, heap |-> heap]

\* _JSCModel.__init__ marks the inlineable types of a schema read from idl.
Detect == /\ api.st = "json"
          /\ api' = [api EXCEPT !.st = "detected", !.heap = IF api.idl THEN DetectInlineableTypes(api.heap) ELSE api.heap]
          /\ UNCHANGED <<fsVars, fmt, suid>>

\* _JSCModel.__init__ calls _InlineDocs; given is the schema it was called on.
Inline == /\ api.st = "detected"
          /\ LET r == InlineDocs(api.heap)
             IN api' = [st |-> "inlined", idl |-> api.idl, given |-> api.heap, heap |-> r.heap, out |-> r.out]
          /\ UNCHANGED <<fsVars, fmt, suid>>

NextInline == \/ Detect
              \/ Inline

SpecInline == InitInline /\ [][NextInline]_vars

\* The objects that can be reached from the schema.
Reachable(heap) == Walk(heap, {<<"schema", 0>>}, {})

\* The ids of the types marked inline_doc in the schema _InlineDocs was given.
MarkedInline(heap) == {heap[o].id : o \in InlineTypes(heap)}

\* The call returned with no '$ref' to a type marked inline_doc left, and with
\* the types not marked inline_doc, in their order, as schema['types'].
Inlined == /\ \A o \in Reachable(api.heap) : api.heap[o].ref \notin MarkedInline(api.given)
           /\ HasTypes(api.given) => TypesOf(api.heap) = SelectSeq(TypesOf(api.given), LAMBDA o : ~api.given[o].inline_doc)

\* C32: for every schema, also one whose inline types refer to each other,
\* _InlineDocs returns, and then no object reachable from the schema has a
\* '$ref' to a type that was marked inline_doc and schema['types'] holds the
\* types that were not marked, in their order.
C32_InlineDocsReplacesRefs == api.st = "inlined" => (api.out = "ok" /\ Inlined)

\* A call of _InlineDocs that returns leaves the schema as the claim says.
C32_InlinedWhenReturned == (api.st = "inlined" /\ api.out = "ok") => Inlined

\* Some call of _InlineDocs on a schema with marked types returned.
C32_Returned == api.st = "inlined" /\ api.out = "ok" /\ MarkedInline(api.given) # {} /\ \E o \in Reachable(api.given) : api.given[o].ref \in MarkedInline(api.given)

(* ------------------ suid_actions.SuidAction.CleanFlimflamDir ----------- *)

\* The largest number of items in a flimflam profile directory.
MaxItems == 2

flimflam_dir == <<"/home/chronos/user/flimflam", "/var/cache/flimflam">>

\* What os.listdir may give for a profile: up to MaxItems items, each a
\* directory or a file.
Listings == UNION {[1..n -> [isdir : BOOLEAN]] : n \in 0..MaxItems}

\* os.system(command): the command is issued and upstart stops or starts
\* the job.
System(run, command) == [run EXCEPT !.log = Append(run.log, [call |-> "os.system", arg |-> <<command>>]),
                                    !.flimflam = IF command = "stop flimflam" THEN "stopped" ELSE "running"]

\* os.system('stop flimflam'), before the try statement.
StopFlimflam == /\ suid.pc = "stop"
                /\ suid' = [System(suid, "stop flimflam") EXCEPT !.pc = "profile", !.profile = 1]
                /\ UNCHANGED <<fsVars, fmt, api>>

\* One turn of the loop over flimflam_dir: a profile that does not exist is
\* skipped, the items of another are listed, which may raise OSError; after
\* the last profile the try block is left.
NextProfile(raises) == /\ suid.pc = "profile"
                       /\ IF suid.profile > Len(flimflam_dir)
                          THEN ~raises /\ suid' = [suid EXCEPT !.pc = "finally"]
                          ELSE IF ~suid.fs[suid.profile].exists
                               THEN ~raises /\ suid' = [suid EXCEPT !.profile = suid.profile + 1]
                               ELSE IF raises
                                    THEN suid' = [suid EXCEPT !.pc = "finally", !.exc = "OSError"]
                                    ELSE suid' = [suid EXCEPT !.pc = "item", !.pending = [j \in 1..Len(suid.fs[suid.profile].items) |-> j]]
                       /\ UNCHANGED <<fsVars, fmt, api>>

\* As RemoveItem below, with the deletions outside any try statement.
RemoveItem_without_finally(raises) == /\ suid.pc = "item"
                                      /\ IF suid.pending = << >>
                                         THEN ~raises /\ suid' = [suid EXCEPT !.pc = "profile", !.profile = suid.profile + 1]
                                         ELSE LET item == Head(suid.pending)
                                                  path == <<flimflam_dir[suid.profile], item>>
                                                  call == IF suid.fs[suid.profile].items[item].isdir THEN "shutil.rmtree" ELSE "os.remove"
                                                  tried == [suid EXCEPT !.log = Append(suid.log, [call |-> call, arg |-> path])]
                                              IN IF raises
                                                 THEN suid' = [tried EXCEPT !.pc = "raised", !.exc = "OSError"]
                                                 ELSE suid' = [tried EXCEPT !.pending = Tail(suid.pending), !.removed = suid.removed \cup {path}]
                                      /\ UNCHANGED <<fsVars, fmt, api>>

\* One turn of the loop over the items of a profile: shutil.rmtree of a
\* directory, os.remove of a file; either may raise OSError, which leaves
\* the try block.
RemoveItem(raises) == /\ suid.pc = "item"
                      /\ IF suid.pending = << >>
                         THEN ~raises /\ suid' = [suid EXCEPT !.pc = "profile", !.profile = suid.profile + 1]
                         ELSE LET item == Head(suid.pending)
                                  path == <<flimflam_dir[suid.profile], item>>
                                  call == IF suid.fs[suid.profile].items[item].isdir THEN "shutil.rmtree" ELSE "os.remove"
                                  tried == [suid EXCEPT !.log = Append(suid.log, [call |-> call, arg |-> path])]
                              IN IF raises
                                 THEN suid' = [tried EXCEPT !.pc = "finally", !.exc = "OSError"]
                                 ELSE suid' = [tried EXCEPT !.pending = Tail(suid.pending), !.removed = suid.removed \cup {path}]
                      /\ UNCHANGED <<fsVars, fmt, api>>

\* The finally clause: os.system('start flimflam'); then the method returns,
\* or the error raised in the try block goes on to the caller.
StartFlimflam == /\ suid.pc = "finally"
                 /\ suid' = [System(suid, "start flimflam") EXCEPT !.pc = IF suid.exc = "none" THEN "returned" ELSE "raised"]
                 /\ UNCHANGED <<fsVars, fmt, api>>

\* CleanFlimflamDir is called with flimflam running and either profile
\* absent or holding some items.
InitSuid == /\ NoFileSystem
            /\ fmt = NoCall
            /\ api = NoCall
            /\ \E fs \in [1..Len(flimflam_dir) -> [exists : BOOLEAN, items : Listings]] :
                   /\ \A p \in 1..Len(flimflam_dir) : ~fs[p].exists => fs[p].items = << >>
                   /\ suid = [pc |-> "stop", fs |-> fs, flimflam |-> "running", log |-> << >>, profile |-> 0, pending |-> << >>, removed |-> {}, exc |-> "none"]

NextSuid == \/ StopFlimflam
            \/ \E raises \in BOOLEAN : NextProfile(raises)
            \/ \E raises \in BOOLEAN : RemoveItem(raises)
            \/ StartFlimflam

SpecSuid == InitSuid /\ [][NextSuid]_vars

\* The run of CleanFlimflamDir has ended, by return or by an error.
Ended == suid.pc \in {"returned", "raised"}

\* The positions of the log at which a command was issued, an item deleted.
Issued(command) == {j \in 1..Len(suid.log) : suid.log[j].call = "os.system" /\ suid.log[j].arg = <<command>>}

Deletions == {j \in 1..Len(suid.log) : suid.log[j].call \in {"shutil.rmtree", "os.remove"}}

\* C33: 'stop flimflam' is issued before any item is deleted; when the run
\* has ended, by return or by an error of a deletion, 'start flimflam' was
\* issued exactly once, after the last attempt to delete, and flimflam is
\* not left stopped; it is not started while the run goes on.
C33_StopDeleteStart == suid.pc # "none" =>
                          /\ \A d \in Deletions : \E j \in Issued("stop flimflam") : j < d
                          /\ Cardinality(Issued("stop flimflam")) <= 1
                          /\ Ended => /\ Cardinality(Issued("start flimflam")) = 1
                                      /\ \A d \in Deletions : \A j \in Issued("start flimflam") : d < j
                                      /\ \A j \in Issued("stop flimflam") : \A k \in Issued("start flimflam") : j < k
                                      /\ suid.flimflam = "running"
                          /\ ~Ended => (Issued("start flimflam") = {} /\ (suid.pc # "stop" => suid.flimflam = "stopped"))

\* C33 happens: a deletion raised after another item had been deleted, and
\* the run ended with the error.
C33_Witness == suid.pc = "raised" /\ suid.removed # {} /\ Cardinality(Deletions) > Cardinality(suid.removed) /\ Issued("start flimflam") # {}

====
